---- MODULE Spec2Model ----
(***************************************************************************)
(* Model of package bitset (src/bitset.go): ByteBitSet, a growable byte    *)
(* buffer addressed bit by bit, MSB first, with its hexadecimal codec and  *)
(* the All/Any queries, in object form and in the free function working    *)
(* directly on hexadecimal text.                                           *)
(*                                                                         *)
(* A byte is a number in 0..255, a buffer ([]uint8) a sequence of bytes,   *)
(* a Go string the sequence of its bytes (character codes).                *)
(***************************************************************************)
EXTENDS Integers, Sequences, FiniteSets

\* ------------------------------------------------------------------ bounds
\* Set and the queries take positions 0..MaxPos (two bytes when MaxPos >= 8).
MaxPos == 8
\* New takes sizes 0..MaxSize.
MaxSize == 16
\* Number of Set calls on one instance.
MaxCalls == 2
\* Number of characters of a text handed to the free function.
MaxRunes == 4
\* Longest text of '0' and '1' characters handed to ParseBinaryString: one
\* character more than a byte holds.
MaxBinLen == 9

\* ------------------------------------------------------- program constants
All == 0
Any == 1
ErrNil == "nil"
ErrParseFailed == "ErrParseFailed"
ErrInvalidSourceString == "ErrInvalidSourceString"
\* byte('_')
invalidNumber == 95
\* '0'..'9', 'a'..'f'
nibbleMapping == <<48, 49, 50, 51, 52, 53, 54, 55, 56, 57, 97, 98, 99, 100, 101, 102>>

\* ------------------------------------------------------ byte arithmetic
Pow2(n) == CASE n = 0 -> 1 [] n = 1 -> 2 [] n = 2 -> 4 [] n = 3 -> 8
             [] n = 4 -> 16 [] n = 5 -> 32 [] n = 6 -> 64 [] n = 7 -> 128

\* (x >> n) & 1
ShrAnd1(x, n) == (x \div Pow2(n)) % 2
\* x | (1 << n)
OrBit(x, n) == IF ShrAnd1(x, n) = 1 THEN x ELSE x + Pow2(n)
\* x &^ (1 << n)
AndNotBit(x, n) == IF ShrAnd1(x, n) = 1 THEN x - Pow2(n) ELSE x

\* ------------------------------------------------------------- ByteBitSet
\* Mutation of offsets: LSB-first shift.
offsetsLsbFirst(bit) == <<bit \div 8, bit % 8>>

\* offsets: the byte index and the shift of a logical bit (MSB first).
offsets(bit) == <<bit \div 8, 7 - (bit % 8)>>

Zeros(n) == [i \in 1..n |-> 0]

\* Mutation of NewMask: size/8 bytes, the remainder dropped.
NewMaskFloor(size) == Zeros(size \div 8)

\* New(size): ceil(size/8) zero bytes.
NewMask(size) == Zeros((size \div 8) + (IF size % 8 > 0 THEN 1 ELSE 0))

\* Len(): allocated bits.
BitLen(m) == Len(m) * 8

\* Mutation of extend: growth appends one byte more than the addressed byte needs.
extendOneMore(m, bn) ==
    IF bn >= Len(m) THEN m \o Zeros(bn - Len(m) + 2) ELSE m

\* Mutation of extend: the buffer is reallocated to end at the addressed byte.
extendTruncates(m, bn) ==
    IF bn >= Len(m) THEN m \o Zeros(bn - Len(m) + 1)
    ELSE SubSeq(m, 1, bn + 1)

\* The "extend internal storage" switch of set.
extend(m, bn) ==
    CASE bn = 0 /\ Len(m) = 0 -> <<0>>
      [] bn >= Len(m) /\ ~(bn = 0 /\ Len(m) = 0) -> m \o Zeros(bn - Len(m) + 1)
      [] OTHER -> m

\* Mutation of set: a clear drops the zero bytes at the end of the buffer.
RECURSIVE TrimZeros(_)
TrimZeros(m) ==
    IF m = <<>> \/ m[Len(m)] # 0 THEN m ELSE TrimZeros(SubSeq(m, 1, Len(m) - 1))
setTrims(m, val, bit) ==
    LET bn == offsets(bit)[1]
        bitn == offsets(bit)[2]
        g == extend(m, bn)
    IN  IF val THEN [g EXCEPT ![bn + 1] = OrBit(@, bitn)]
        ELSE TrimZeros([g EXCEPT ![bn + 1] = AndNotBit(@, bitn)])

\* Mutation of set: the byte is assigned (=) instead of or-ed (|=) on a set.
setAssignsByte(m, val, bit) ==
    LET bn == offsets(bit)[1]
        bitn == offsets(bit)[2]
        g == extend(m, bn)
    IN  [g EXCEPT ![bn + 1] = IF val THEN Pow2(bitn) ELSE AndNotBit(@, bitn)]

\* Mutation of set: the clear toggles the bit (^=) instead of clearing it (&^=).
setToggles(m, val, bit) ==
    LET bn == offsets(bit)[1]
        bitn == offsets(bit)[2]
        g == extend(m, bn)
    IN  [g EXCEPT ![bn + 1] = IF val THEN OrBit(@, bitn)
                              ELSE IF ShrAnd1(@, bitn) = 1 THEN @ - Pow2(bitn) ELSE @ + Pow2(bitn)]

\* set(val, bit): extend, then set or clear the bit.
set(m, val, bit) ==
    LET bn == offsets(bit)[1]
        bitn == offsets(bit)[2]
        g == extend(m, bn)
    IN  [g EXCEPT ![bn + 1] = IF val THEN OrBit(@, bitn) ELSE AndNotBit(@, bitn)]

\* Set(val, bits...): set for each position in order.
RECURSIVE SetBits(_, _, _)
SetBits(m, val, bits) ==
    IF bits = <<>> THEN m
    ELSE SetBits(set(m, val, Head(bits)), val, Tail(bits))

\* ------------------------------------------------- slices and their arrays
\* A slice held outside the bit-set: its bytes, whether it is backed by the
\* array that backs mask, and its capacity beyond its length.
NoSlice == [held |-> FALSE, shares |-> FALSE, bytes |-> <<>>, spare |-> 0]

\* Spare bytes append may leave behind the new length when it reallocates: the
\* capacity it picks is at least the length and otherwise its own choice.
Slacks == {0, 1}

\* set on a buffer of Len(m) bytes with sp spare bytes of capacity assigns a
\* new array to mask: the literal []byte{0}, or an append beyond the capacity.
reallocates(m, sp, bn) ==
    \/ bn = 0 /\ Len(m) = 0
    \/ bn >= Len(m) /\ bn - Len(m) + 1 > sp

\* The spare capacity after set: kept, used up by an append in place, or what
\* the reallocation leaves (none for the literal []byte{0}).
spareAfterSet(m, sp, bn, slack) ==
    IF bn < Len(m) THEN sp
    ELSE IF bn = 0 /\ Len(m) = 0 THEN 0
    ELSE IF reallocates(m, sp, bn) THEN slack
    ELSE sp - (bn - Len(m) + 1)

\* The spare capacity after Set(val, bits...).
RECURSIVE SpareAfter(_, _, _, _, _)
SpareAfter(m, sp, val, bits, slack) ==
    IF bits = <<>> THEN sp
    ELSE SpareAfter(set(m, val, Head(bits)),
                    spareAfterSet(m, sp, offsets(Head(bits))[1], slack),
                    val, Tail(bits), slack)

\* What a slice h held outside sees of Set(val, bits...) on the bit-set: while
\* it shares the array, every write inside its length; a reallocation leaves
\* it with the old array.
RECURSIVE SeenAfter(_, _, _, _, _, _)
SeenAfter(h, m, sp, val, bits, slack) ==
    IF bits = <<>> THEN h
    ELSE LET bn == offsets(Head(bits))[1]
             m2 == set(m, val, Head(bits))
             h2 == IF ~h.shares THEN h
                   ELSE IF reallocates(m, sp, bn) THEN [h EXCEPT !.shares = FALSE]
                   ELSE [h EXCEPT !.bytes = SubSeq(m2, 1, Len(h.bytes))]
         IN  SeenAfter(h2, m2, spareAfterSet(m, sp, bn, slack), val, Tail(bits), slack)

\* Mutation of Clone: the slice of the source is assigned, not copied.
CloneShares(m) == [held |-> TRUE, shares |-> TRUE, bytes |-> m, spare |-> 0]

\* Clone(src): make and copy.
Clone(m) ==
    [held |-> TRUE, shares |-> FALSE, bytes |-> [i \in 1..Len(m) |-> m[i]], spare |-> 0]

\* Bytes(): the slice of the bit-set itself, with its capacity.
Bytes(m, sp) == [held |-> TRUE, shares |-> TRUE, bytes |-> m, spare |-> sp]

\* Mutation of IsSet: a position out of range reads as set.
IsSetOutOfRangeTrue(m, bit) ==
    IF bit >= BitLen(m) THEN TRUE
    ELSE ShrAnd1(m[offsets(bit)[1] + 1], offsets(bit)[2]) = 1

\* IsSet(bit)
IsSet(m, bit) ==
    IF bit >= BitLen(m) THEN FALSE
    ELSE ShrAnd1(m[offsets(bit)[1] + 1], offsets(bit)[2]) = 1

\* The All loop and the Any loop of the method AreSet.
RECURSIVE allLoop(_, _)
allLoop(m, bits) ==
    IF bits = <<>> THEN TRUE
    ELSE IF ~IsSet(m, Head(bits)) THEN FALSE
    ELSE allLoop(m, Tail(bits))

RECURSIVE anyLoop(_, _)
anyLoop(m, bits) ==
    IF bits = <<>> THEN FALSE
    ELSE IF IsSet(m, Head(bits)) THEN TRUE
    ELSE anyLoop(m, Tail(bits))

\* Mutation of AreSet: the rule is ignored for two or more positions.
AreSetIgnoresRule(m, rule, bits) ==
    IF Len(bits) = 0 THEN FALSE
    ELSE IF Len(m) = 0 THEN FALSE
    ELSE IF Len(bits) = 1 THEN IsSet(m, bits[1])
    ELSE anyLoop(m, bits)

\* (bbs ByteBitSet) AreSet(rule, bits...)
AreSet(m, rule, bits) ==
    IF Len(bits) = 0 THEN FALSE
    ELSE IF Len(m) = 0 THEN FALSE
    ELSE IF Len(bits) = 1 THEN IsSet(m, bits[1])
    ELSE IF rule = All THEN allLoop(m, bits)
    ELSE anyLoop(m, bits)

\* Mutation of String: the low nibble is written before the high nibble.
StringSwapsNibbles(m) ==
    IF Len(m) = 0 THEN <<>>
    ELSE [j \in 1..(2 * Len(m)) |->
            IF j % 2 = 1 THEN nibbleMapping[(m[(j + 1) \div 2] % 16) + 1]
            ELSE nibbleMapping[(m[j \div 2] \div 16) + 1]]

\* String(): two lowercase hex digits per byte.
String(m) ==
    IF Len(m) = 0 THEN <<>>
    ELSE [j \in 1..(2 * Len(m)) |->
            IF j % 2 = 1 THEN nibbleMapping[(m[(j + 1) \div 2] \div 16) + 1]
            ELSE nibbleMapping[(m[j \div 2] % 16) + 1]]

\* ------------------------------------------------------------ hex decoding
\* hexCharToNumber(c)
hexCharToNumber(c) ==
    CASE 48 <= c /\ c <= 57 -> c - 48
      [] 97 <= c /\ c <= 102 -> c - 97 + 10
      [] c >= 65 /\ c <= 70 -> c - 65 + 10
      [] OTHER -> invalidNumber

\* Mutation of parsePair: the second character is taken as the high nibble.
parsePairSwapped(first, second) ==
    IF hexCharToNumber(first) = invalidNumber THEN [val |-> 0, err |-> ErrParseFailed]
    ELSE IF hexCharToNumber(second) = invalidNumber THEN [val |-> 0, err |-> ErrParseFailed]
    ELSE [val |-> hexCharToNumber(second) * 16 + hexCharToNumber(first), err |-> ErrNil]

\* parsePair(first, second): the byte and the error.
parsePair(first, second) ==
    IF hexCharToNumber(first) = invalidNumber THEN [val |-> 0, err |-> ErrParseFailed]
    ELSE IF hexCharToNumber(second) = invalidNumber THEN [val |-> 0, err |-> ErrParseFailed]
    ELSE [val |-> hexCharToNumber(first) * 16 + hexCharToNumber(second), err |-> ErrNil]

\* Mutation of parseLoop: on an error the bytes decoded so far are returned.
RECURSIVE parseLoopKeepsPartial(_, _, _)
parseLoopKeepsPartial(src, i, acc) ==
    IF 2 * i >= Len(src) THEN [bbs |-> acc, err |-> ErrNil]
    ELSE LET p == parsePair(src[2 * i + 1], src[2 * i + 2])
         IN  IF p.err # ErrNil THEN [bbs |-> acc, err |-> p.err]
             ELSE parseLoopKeepsPartial(src, i + 1, [acc EXCEPT ![i + 1] = p.val])

\* The loop of parseHexBytes from pair i (0-based byte offset 2*i) on.
RECURSIVE parseLoop(_, _, _)
parseLoop(src, i, acc) ==
    IF 2 * i >= Len(src) THEN [bbs |-> acc, err |-> ErrNil]
    ELSE LET p == parsePair(src[2 * i + 1], src[2 * i + 2])
         IN  IF p.err # ErrNil THEN [bbs |-> <<>>, err |-> p.err]
             ELSE parseLoop(src, i + 1, [acc EXCEPT ![i + 1] = p.val])

\* parseHexBytes(src)
parseHexBytes(src) ==
    IF Len(src) = 0 THEN [bbs |-> <<>>, err |-> ErrNil]
    ELSE IF Len(src) % 2 = 1 THEN [bbs |-> <<>>, err |-> ErrInvalidSourceString]
    ELSE parseLoop(src, 0, NewMask((Len(src) \div 2) * 8))

\* len([]rune(s)): a byte below 0x80 is one rune, a two-byte lead (0xC2..0xDF)
\* followed by a continuation byte (0x80..0xBF) is one rune, and any other
\* byte decodes to one replacement rune. (Texts here hold no longer sequences.)
RECURSIVE RuneCount(_)
RuneCount(s) ==
    IF s = <<>> THEN 0
    ELSE IF Len(s) >= 2 /\ 194 <= s[1] /\ s[1] <= 223 /\ 128 <= s[2] /\ s[2] <= 191
         THEN 1 + RuneCount(Tail(Tail(s)))
    ELSE 1 + RuneCount(Tail(s))

\* Mutation of ParseHexString: no comparison of the byte and rune counts.
ParseHexStringNoRuneCheck(hexStr) == parseHexBytes(hexStr)

\* ParseHexString(hexStr)
ParseHexString(hexStr) ==
    IF Len(hexStr) # RuneCount(hexStr) THEN [bbs |-> <<>>, err |-> ErrInvalidSourceString]
    ELSE parseHexBytes(hexStr)

\* Mutation of freeLoop: under All a position out of range is skipped.
RECURSIVE freeLoopAllSkips(_, _, _)
freeLoopAllSkips(buf, rule, bits) ==
    IF bits = <<>> THEN [res |-> (rule = All), err |-> ErrNil]
    ELSE LET bit == Head(bits)
             hexBits == (Len(buf) \div 2) * 8
             bn == offsets(bit)[1]
             bitn == offsets(bit)[2]
         IN  IF bit >= hexBits
             THEN freeLoopAllSkips(buf, rule, Tail(bits))
             ELSE LET p == parsePair(buf[bn * 2 + 1], buf[bn * 2 + 2])
                      val == ShrAnd1(p.val, bitn)
                  IN  IF p.err # ErrNil THEN [res |-> FALSE, err |-> p.err]
                      ELSE IF rule = All /\ val = 0 THEN [res |-> FALSE, err |-> ErrNil]
                      ELSE IF rule = Any /\ val = 1 THEN [res |-> TRUE, err |-> ErrNil]
                      ELSE freeLoopAllSkips(buf, rule, Tail(bits))

\* Mutation of freeLoop: under Any a position out of range ends the scan.
RECURSIVE freeLoopAnyStops(_, _, _)
freeLoopAnyStops(buf, rule, bits) ==
    IF bits = <<>> THEN [res |-> (rule = All), err |-> ErrNil]
    ELSE LET bit == Head(bits)
             hexBits == (Len(buf) \div 2) * 8
             bn == offsets(bit)[1]
             bitn == offsets(bit)[2]
         IN  IF bit >= hexBits
             THEN [res |-> FALSE, err |-> ErrNil]
             ELSE LET p == parsePair(buf[bn * 2 + 1], buf[bn * 2 + 2])
                      val == ShrAnd1(p.val, bitn)
                  IN  IF p.err # ErrNil THEN [res |-> FALSE, err |-> p.err]
                      ELSE IF rule = All /\ val = 0 THEN [res |-> FALSE, err |-> ErrNil]
                      ELSE IF rule = Any /\ val = 1 THEN [res |-> TRUE, err |-> ErrNil]
                      ELSE freeLoopAnyStops(buf, rule, Tail(bits))

\* Mutation of the free function: the error of parsePair is dropped, and a
\* malformed byte reads as zero.
RECURSIVE freeLoopDropsPairError(_, _, _)
freeLoopDropsPairError(buf, rule, bits) ==
    IF bits = <<>> THEN [res |-> (rule = All), err |-> ErrNil]
    ELSE LET bit == Head(bits)
             hexBits == (Len(buf) \div 2) * 8
             bn == offsets(bit)[1]
             bitn == offsets(bit)[2]
         IN  IF bit >= hexBits
             THEN IF rule = All THEN [res |-> FALSE, err |-> ErrNil]
                  ELSE freeLoopDropsPairError(buf, rule, Tail(bits))
             ELSE LET p == parsePair(buf[bn * 2 + 1], buf[bn * 2 + 2])
                      val == ShrAnd1(p.val, bitn)
                  IN  IF rule = All /\ val = 0 THEN [res |-> FALSE, err |-> ErrNil]
                      ELSE IF rule = Any /\ val = 1 THEN [res |-> TRUE, err |-> ErrNil]
                      ELSE freeLoopDropsPairError(buf, rule, Tail(bits))

\* The loop of the free function AreSet over the listed positions.
RECURSIVE freeLoop(_, _, _)
freeLoop(buf, rule, bits) ==
    IF bits = <<>> THEN [res |-> (rule = All), err |-> ErrNil]
    ELSE LET bit == Head(bits)
             hexBits == (Len(buf) \div 2) * 8
             bn == offsets(bit)[1]
             bitn == offsets(bit)[2]
         IN  IF bit >= hexBits
             THEN IF rule = All THEN [res |-> FALSE, err |-> ErrNil]
                  ELSE freeLoop(buf, rule, Tail(bits))
             ELSE LET p == parsePair(buf[bn * 2 + 1], buf[bn * 2 + 2])
                      val == ShrAnd1(p.val, bitn)
                  IN  IF p.err # ErrNil THEN [res |-> FALSE, err |-> p.err]
                      ELSE IF rule = All /\ val = 0 THEN [res |-> FALSE, err |-> ErrNil]
                      ELSE IF rule = Any /\ val = 1 THEN [res |-> TRUE, err |-> ErrNil]
                      ELSE freeLoop(buf, rule, Tail(bits))

\* Mutation of the free function: no check of an odd length.
AreSetHexNoOddCheck(hexStr, rule, bits) ==
    IF Len(hexStr) = 0 \/ Len(bits) = 0 THEN [res |-> FALSE, err |-> ErrNil]
    ELSE freeLoop(hexStr, rule, bits)

\* Mutation of the free function: no early return on an empty position list.
AreSetHexNoEmptyCheck(hexStr, rule, bits) ==
    IF Len(hexStr) = 0 THEN [res |-> FALSE, err |-> ErrNil]
    ELSE IF Len(hexStr) % 2 = 1 THEN [res |-> FALSE, err |-> ErrInvalidSourceString]
    ELSE freeLoop(hexStr, rule, bits)

\* AreSet(hexStr, rule, bits...), the free function.
AreSetHex(hexStr, rule, bits) ==
    IF Len(hexStr) = 0 \/ Len(bits) = 0 THEN [res |-> FALSE, err |-> ErrNil]
    ELSE IF Len(hexStr) % 2 = 1 THEN [res |-> FALSE, err |-> ErrInvalidSourceString]
    ELSE freeLoop(hexStr, rule, bits)

\* ParseHexBytes(hexStr)
ParseHexBytes(hexStr) == parseHexBytes(hexStr)

\* The loop of Validate from pair i on.
RECURSIVE validateLoop(_, _)
validateLoop(buf, i) ==
    IF 2 * i >= Len(buf) THEN ErrNil
    ELSE IF parsePair(buf[2 * i + 1], buf[2 * i + 2]).err # ErrNil THEN ErrParseFailed
    ELSE validateLoop(buf, i + 1)

\* Validate(buf)
Validate(buf) ==
    IF Len(buf) = 0 THEN ErrNil
    ELSE IF Len(buf) % 2 = 1 THEN ErrParseFailed
    ELSE validateLoop(buf, 0)

\* --------------------------------------------------------- binary strings
\* []rune(s): a byte below 0x80 is its own rune, a two-byte lead followed by a
\* continuation byte is one rune, any other byte the replacement rune U+FFFD.
RECURSIVE Runes(_)
Runes(s) ==
    IF s = <<>> THEN <<>>
    ELSE IF Len(s) >= 2 /\ 194 <= s[1] /\ s[1] <= 223 /\ 128 <= s[2] /\ s[2] <= 191
         THEN <<(s[1] - 192) * 64 + (s[2] - 128)>> \o Runes(Tail(Tail(s)))
    ELSE IF s[1] < 128 THEN <<s[1]>> \o Runes(Tail(s))
    ELSE <<65533>> \o Runes(Tail(s))

\* Mutation of parseBinLoop: character i is stored at position i + 1.
RECURSIVE parseBinLoopShifted(_, _, _)
parseBinLoopShifted(rs, i, acc) ==
    IF i >= Len(rs) THEN [bbs |-> acc, err |-> ErrNil]
    ELSE IF ~(rs[i + 1] = 48 \/ rs[i + 1] = 49) THEN [bbs |-> <<>>, err |-> ErrParseFailed]
    ELSE parseBinLoopShifted(rs, i + 1, SetBits(acc, rs[i + 1] = 49, <<i + 1>>))

\* Mutation of parseBinLoop: a character that is not '1' is taken as '0'.
RECURSIVE parseBinLoopNoCheck(_, _, _)
parseBinLoopNoCheck(rs, i, acc) ==
    IF i >= Len(rs) THEN [bbs |-> acc, err |-> ErrNil]
    ELSE parseBinLoopNoCheck(rs, i + 1, SetBits(acc, rs[i + 1] = 49, <<i>>))

\* The loop of ParseBinaryString over the runes, from rune i on.
RECURSIVE parseBinLoop(_, _, _)
parseBinLoop(rs, i, acc) ==
    IF i >= Len(rs) THEN [bbs |-> acc, err |-> ErrNil]
    ELSE IF ~(rs[i + 1] = 48 \/ rs[i + 1] = 49) THEN [bbs |-> <<>>, err |-> ErrParseFailed]
    ELSE parseBinLoop(rs, i + 1, SetBits(acc, rs[i + 1] = 49, <<i>>))

\* ParseBinaryString(src)
ParseBinaryString(src) ==
    IF Len(src) = 0 THEN [bbs |-> <<>>, err |-> ErrNil]
    ELSE parseBinLoop(Runes(src), 0, NewMask(Len(src)))

\* Mutation of BinaryString: the bits of a byte are written from bit 0 up.
BinaryStringLsbFirst(m) ==
    IF Len(m) = 0 THEN <<>>
    ELSE [j \in 1..(8 * Len(m)) |-> 48 + ShrAnd1(m[((j - 1) \div 8) + 1], (j - 1) % 8)]

\* BinaryString(): eight '0'/'1' characters per byte, from bit 7 down to bit 0.
BinaryString(m) ==
    IF Len(m) = 0 THEN <<>>
    ELSE [j \in 1..(8 * Len(m)) |-> 48 + ShrAnd1(m[((j - 1) \div 8) + 1], 7 - ((j - 1) % 8))]

\* ------------------------------------------------------------------ inputs
Positions == 0..MaxPos
\* A position beyond every buffer the model builds.
FarPos == MaxSize + MaxPos + 8
QueryPositions == Positions \cup {FarPos}

\* The position lists of the package documentation (bitset.go, lines 7-9).
DocLists == {<<0, 6>>, <<0, 6, 7>>, <<0, 1, 7, 8, 9, 14, 15>>}
\* Position lists handed to Set.
SetLists == {<<>>} \cup {<<p>> : p \in Positions} \cup DocLists
\* First and last bit of byte 0, first bit of byte 1, and a position out of range.
EdgePositions == {0, 7, 8, FarPos}
\* Position lists handed to the queries.
QueryLists == {<<>>} \cup {<<p>> : p \in QueryPositions}
                \cup {<<p, q>> : p \in EdgePositions, q \in EdgePositions}
                \cup DocLists

\* Characters of the texts, each as its UTF-8 bytes: '3', 'b', 'F', 'x' and
\* the two-byte character U+00E9.
Chars == {<<51>>, <<98>>, <<70>>, <<120>>, <<195, 169>>}
RECURSIVE Flatten(_)
Flatten(cs) == IF cs = <<>> THEN <<>> ELSE Head(cs) \o Flatten(Tail(cs))
Texts == {Flatten(cs) : cs \in UNION {[1..n -> Chars] : n \in 0..MaxRunes}}

\* Characters of the binary texts: '0', '1', 'x' and the two-byte character U+00E9.
BinChars == {<<48>>, <<49>>, <<120>>, <<195, 169>>}
\* Every text of '0' and '1' up to MaxBinLen characters, and every text of
\* BinChars up to MaxRunes characters.
BinTexts == UNION {[1..n -> {48, 49}] : n \in 0..MaxBinLen}
              \cup {Flatten(cs) : cs \in UNION {[1..n -> BinChars] : n \in 0..MaxRunes}}

\* ------------------------------------------------------------------- state
VARIABLES
    mask,   \* ByteBitSet.mask of the instance
    old,    \* mask as it was when the last call started
    call,   \* the last call: its name, arguments and results
    calls,  \* number of writes made: Set calls on the instance or its clone, stores through the slice of Bytes()
    text,   \* the text handed to the functions working on text
    highest, \* history: the highest position ever set to 1 on the instance, -1 if none
    spare,  \* cap(mask) - len(mask)
    clone,  \* the bit-set returned by Clone: its mask, as a slice held outside
    view,   \* the slice returned by Bytes()
    race    \* two Set calls running on the instance at once: arrays, header, locals

vars == <<mask, old, call, calls, text, highest, spare, clone, view, race>>

\* No Set calls running at once.
NoRace == [heap |-> <<>>, cur |-> [id |-> 0, len |-> 0], w |-> <<>>, init |-> <<>>]

\* The highest of the positions in bits and h.
RECURSIVE MaxOf(_, _)
MaxOf(bits, h) ==
    IF bits = <<>> THEN h
    ELSE MaxOf(Tail(bits), IF Head(bits) > h THEN Head(bits) ELSE h)

\* The highest position of a decoded buffer that holds a 1, -1 if none.
HighestOne(m) ==
    LET ones == {p \in 0..(BitLen(m) - 1) : ShrAnd1(m[(p \div 8) + 1], 7 - (p % 8)) = 1}
    IN  IF ones = {} THEN -1 ELSE CHOOSE p \in ones : \A q \in ones : q <= p

NoCall == [op |-> "none", val |-> FALSE, rule |-> All, bits |-> <<>>,
           res |-> FALSE, err |-> ErrNil, str |-> <<>>]

\* bs := New(size)
Init ==
    /\ \E size \in 0..MaxSize :
          /\ mask = NewMask(size)
          /\ call = [NoCall EXCEPT !.op = "New", !.bits = <<size>>]
    /\ old = <<>>
    /\ calls = 0
    /\ text = <<>>
    /\ highest = -1
    /\ spare = 0
    /\ clone = NoSlice
    /\ view = NoSlice
    /\ race = NoRace

\* bs.Set(val, bits...)
SetCall(val, bits) ==
    /\ calls < MaxCalls
    /\ mask' = SetBits(mask, val, bits)
    /\ old' = mask
    /\ call' = [NoCall EXCEPT !.op = "Set", !.val = val, !.bits = bits]
    /\ calls' = calls + 1
    /\ highest' = IF val THEN MaxOf(bits, highest) ELSE highest
    /\ \E slack \in Slacks :
          /\ spare' = SpareAfter(mask, spare, val, bits, slack)
          /\ clone' = SeenAfter(clone, mask, spare, val, bits, slack)
          /\ view' = SeenAfter(view, mask, spare, val, bits, slack)
    /\ UNCHANGED <<text, race>>

\* bs.IsSet(pos)
IsSetCall(pos) ==
    /\ call' = [NoCall EXCEPT !.op = "IsSet", !.bits = <<pos>>, !.res = IsSet(mask, pos)]
    /\ old' = mask
    /\ UNCHANGED <<mask, calls, text, highest, spare, clone, view, race>>

\* bs.AreSet(rule, bits...)
AreSetCall(rule, bits) ==
    /\ call' = [NoCall EXCEPT !.op = "AreSet", !.rule = rule, !.bits = bits,
                              !.res = AreSet(mask, rule, bits)]
    /\ old' = mask
    /\ UNCHANGED <<mask, calls, text, highest, spare, clone, view, race>>

\* bs.String()
StringCall ==
    /\ call' = [NoCall EXCEPT !.op = "String", !.str = String(mask)]
    /\ old' = mask
    /\ UNCHANGED <<mask, calls, text, highest, spare, clone, view, race>>

\* bs.BinaryString()
BinaryStringCall ==
    /\ call' = [NoCall EXCEPT !.op = "BinaryString", !.str = BinaryString(mask)]
    /\ old' = mask
    /\ UNCHANGED <<mask, calls, text, highest, spare, clone, view, race>>

Next ==
    \/ \E val \in BOOLEAN, bits \in SetLists : SetCall(val, bits)
    \/ \E pos \in QueryPositions : IsSetCall(pos)
    \/ \E rule \in {All, Any}, bits \in QueryLists : AreSetCall(rule, bits)
    \/ StringCall
    \/ BinaryStringCall

Spec == Init /\ [][Next]_vars

\* ------------------------------------------ functions on hexadecimal text
\* The text, the rule and the positions are the inputs; call holds the rule
\* and the positions before the function is applied, and its results after.
InitText ==
    /\ text \in Texts
    /\ mask = <<>>
    /\ old = <<>>
    /\ \E rule \in {All, Any}, bits \in QueryLists :
          call = [NoCall EXCEPT !.rule = rule, !.bits = bits]
    /\ calls = 0
    /\ highest = -1
    /\ spare = 0
    /\ clone = NoSlice
    /\ view = NoSlice
    /\ race = NoRace

\* bs, err := ParseHexString(text)
ParseHexStringCall ==
    /\ mask' = ParseHexString(text).bbs
    /\ old' = mask
    /\ call' = [call EXCEPT !.op = "ParseHexString", !.res = FALSE,
                            !.err = ParseHexString(text).err]
    /\ highest' = HighestOne(ParseHexString(text).bbs)
    /\ spare' = 0
    /\ UNCHANGED <<calls, text, clone, view, race>>

\* res, err := AreSet(text, rule, bits...)
AreSetHexCall ==
    /\ call' = [call EXCEPT !.op = "AreSetHex",
                            !.res = AreSetHex(text, call.rule, call.bits).res,
                            !.err = AreSetHex(text, call.rule, call.bits).err]
    /\ old' = mask
    /\ UNCHANGED <<mask, calls, text, highest, spare, clone, view, race>>

NextText ==
    \/ ParseHexStringCall
    \/ AreSetHexCall
    \/ AreSetCall(call.rule, call.bits)

SpecText == InitText /\ [][NextText]_vars

\* ------------------------------------------------- the decoding functions
\* The text is the input; every decoding function is applied to it.
InitBin ==
    /\ text \in BinTexts
    /\ mask = <<>>
    /\ old = <<>>
    /\ call = NoCall
    /\ calls = 0
    /\ highest = -1
    /\ spare = 0
    /\ clone = NoSlice
    /\ view = NoSlice
    /\ race = NoRace

\* bs, err := ParseBinaryString(text)
ParseBinaryStringCall ==
    /\ mask' = ParseBinaryString(text).bbs
    /\ old' = mask
    /\ call' = [NoCall EXCEPT !.op = "ParseBinaryString", !.err = ParseBinaryString(text).err]
    /\ highest' = HighestOne(ParseBinaryString(text).bbs)
    /\ spare' = 0
    /\ UNCHANGED <<calls, text, clone, view, race>>

\* bs, err := ParseHexBytes([]byte(text))
ParseHexBytesCall ==
    /\ mask' = ParseHexBytes(text).bbs
    /\ old' = mask
    /\ call' = [NoCall EXCEPT !.op = "ParseHexBytes", !.err = ParseHexBytes(text).err]
    /\ highest' = HighestOne(ParseHexBytes(text).bbs)
    /\ spare' = 0
    /\ UNCHANGED <<calls, text, clone, view, race>>

\* err := Validate([]byte(text))
ValidateCall ==
    /\ call' = [NoCall EXCEPT !.op = "Validate", !.err = Validate(text)]
    /\ old' = mask
    /\ UNCHANGED <<mask, calls, text, highest, spare, clone, view, race>>

NextBin ==
    \/ ParseBinaryStringCall
    \/ ParseHexBytesCall
    \/ ParseHexStringCall
    \/ ValidateCall
    \/ BinaryStringCall

SpecBin == InitBin /\ [][NextBin]_vars

\* ------------------------------------------------------ a clone at work
\* c := Clone(bs)
CloneCall ==
    /\ ~clone.held
    /\ clone' = Clone(mask)
    /\ call' = [NoCall EXCEPT !.op = "Clone"]
    /\ old' = mask
    /\ UNCHANGED <<mask, calls, text, highest, spare, view, race>>

\* c.Set(val, bits...): the bit-set bs sees the writes when the two share an array.
CloneSetCall(val, bits) ==
    /\ clone.held
    /\ calls < MaxCalls
    /\ \E slack \in Slacks :
          LET seen == SeenAfter([NoSlice EXCEPT !.shares = clone.shares, !.bytes = mask],
                                clone.bytes, clone.spare, val, bits, slack)
          IN  /\ mask' = seen.bytes
              /\ clone' = [clone EXCEPT !.bytes = SetBits(clone.bytes, val, bits),
                                        !.shares = seen.shares,
                                        !.spare = SpareAfter(clone.bytes, clone.spare,
                                                             val, bits, slack)]
    /\ call' = [NoCall EXCEPT !.op = "CloneSet", !.val = val, !.bits = bits]
    /\ old' = mask
    /\ calls' = calls + 1
    /\ UNCHANGED <<text, highest, spare, view, race>>

\* c.IsSet(pos)
CloneIsSetCall(pos) ==
    /\ clone.held
    /\ call' = [NoCall EXCEPT !.op = "CloneIsSet", !.bits = <<pos>>,
                              !.res = IsSet(clone.bytes, pos)]
    /\ old' = mask
    /\ UNCHANGED <<mask, calls, text, highest, spare, clone, view, race>>

NextClone ==
    \/ \E val \in BOOLEAN, bits \in SetLists : SetCall(val, bits)
    \/ CloneCall
    \/ \E val \in BOOLEAN, bits \in SetLists : CloneSetCall(val, bits)
    \/ StringCall
    \/ \E pos \in EdgePositions : CloneIsSetCall(pos)

SpecClone == Init /\ [][NextClone]_vars

\* ------------------------------------------- the slice Bytes() returns
\* Byte values written through the slice.
ByteValues == {0, 128, 255}

\* b := bs.Bytes()
BytesCall ==
    /\ view' = Bytes(mask, spare)
    /\ call' = [NoCall EXCEPT !.op = "Bytes", !.str = mask]
    /\ old' = mask
    /\ UNCHANGED <<mask, calls, text, highest, spare, clone, race>>

\* b[k] = v, by the caller that holds b: a store into the array of b, which
\* is the array of mask until a Set reallocates.
WriteBytesCall(k, v) ==
    /\ view.held
    /\ calls < MaxCalls
    /\ k < Len(view.bytes)
    /\ view' = [view EXCEPT !.bytes[k + 1] = v]
    /\ mask' = IF view.shares THEN [mask EXCEPT ![k + 1] = v] ELSE mask
    /\ highest' = IF HighestOne(mask') > highest THEN HighestOne(mask') ELSE highest
    /\ call' = [NoCall EXCEPT !.op = "WriteBytes", !.bits = <<k>>]
    /\ old' = mask
    /\ calls' = calls + 1
    /\ UNCHANGED <<text, spare, clone, race>>

NextBytes ==
    \/ \E val \in BOOLEAN, bits \in SetLists : SetCall(val, bits)
    \/ BytesCall
    \/ \E k \in 0..((MaxSize + 7) \div 8), v \in ByteValues : WriteBytesCall(k, v)
    \/ \E pos \in EdgePositions : IsSetCall(pos)

SpecBytes == Init /\ [][NextBytes]_vars

\* ------------------------------------- two Set calls running at once
\* Two goroutines call bs.Set(true, p) on one instance with nothing ordering
\* them. race.heap holds the arrays (each as long as its capacity), race.cur
\* the slice header bs.mask (array and length), race.w the locals of the two
\* calls and race.init the buffer the calls started on. A step of a call is
\* one load or one store of the header or of a byte; the header is stored a
\* word at a time. A clone taken before the calls start is read meanwhile.
Writers == {1, 2}
NoHeader == [id |-> 0, len |-> 0]

\* The bytes bs.mask shows: the array of the header up to the length of the header.
MaskOf(r) ==
    LET a == r.heap[r.cur.id]
    IN  SubSeq(a, 1, IF r.cur.len < Len(a) THEN r.cur.len ELSE Len(a))

InitRace ==
    /\ \E size \in 0..MaxSize : mask = NewMask(size)
    /\ old = mask
    /\ clone = Clone(mask)
    /\ \E p1 \in Positions, p2 \in Positions :
          /\ race = [heap |-> <<mask>>,
                     cur |-> [id |-> 1, len |-> Len(mask)],
                     w |-> [i \in Writers |->
                             [pc |-> "start", bit |-> IF i = 1 THEN p1 ELSE p2, size |-> 0,
                              hdr |-> NoHeader, half |-> "none", ref |-> 0, byte |-> 0]],
                     init |-> mask]
          /\ call = [NoCall EXCEPT !.op = "Race", !.val = TRUE, !.bits = <<p1, p2>>]
    /\ calls = 0
    /\ text = <<>>
    /\ highest = -1
    /\ spare = 0
    /\ view = NoSlice

\* A step that leaves the arrays and the header as r says.
RaceStep(r) ==
    /\ race' = r
    /\ mask' = MaskOf(r)
    /\ spare' = Len(r.heap[r.cur.id]) - Len(MaskOf(r))
    /\ UNCHANGED <<old, call, calls, text, view>>

\* size := uint(len(bbs.mask)), and the switch on it.
ReadLen(i) ==
    LET L == race.w[i]
        bn == offsets(L.bit)[1]
        size == race.cur.len
    IN  /\ L.pc = "start"
        /\ RaceStep([race EXCEPT !.w[i].size = size,
                                 !.w[i].pc = IF bn >= size THEN "grow" ELSE "load"])
        /\ UNCHANGED <<clone, highest>>

\* The right-hand side of the assignment to mask: the literal []byte{0}, or
\* append(bbs.mask, make([]byte, bn-size+1)...), which loads the header again,
\* writes the zero bytes in place when the capacity holds them, and copies to
\* a new array otherwise.
Grow(i) ==
    LET L == race.w[i]
        bn == offsets(L.bit)[1]
        h == race.cur
        a == race.heap[h.id]
        add == bn - L.size + 1
        newid == Len(race.heap) + 1
    IN  /\ L.pc = "grow"
        /\ IF bn = 0 /\ L.size = 0
           THEN RaceStep([race EXCEPT !.heap = Append(@, <<0>>),
                                      !.w[i].hdr = [id |-> newid, len |-> 1],
                                      !.w[i].pc = "store"])
           ELSE IF h.len > Len(a)
           THEN RaceStep([race EXCEPT !.w[i].pc = "fault"])
           ELSE IF h.len + add <= Len(a)
           THEN RaceStep([race EXCEPT
                    !.heap[h.id] = [k \in 1..Len(a) |->
                                      IF h.len < k /\ k <= h.len + add THEN 0 ELSE a[k]],
                    !.w[i].hdr = [id |-> h.id, len |-> h.len + add],
                    !.w[i].pc = "store"])
           ELSE \E slack \in Slacks :
                  RaceStep([race EXCEPT
                    !.heap = Append(@, SubSeq(a, 1, h.len) \o Zeros(add + slack)),
                    !.w[i].hdr = [id |-> newid, len |-> h.len + add],
                    !.w[i].pc = "store"])
        /\ UNCHANGED <<clone, highest>>

\* bbs.mask = ..., first word: the array or the length.
StoreFirst(i) ==
    LET L == race.w[i]
    IN  /\ L.pc = "store"
        /\ \/ RaceStep([race EXCEPT !.cur.id = L.hdr.id, !.w[i].half = "len",
                                    !.w[i].pc = "store2"])
           \/ RaceStep([race EXCEPT !.cur.len = L.hdr.len, !.w[i].half = "id",
                                    !.w[i].pc = "store2"])
        /\ UNCHANGED <<clone, highest>>

\* bbs.mask = ..., the other word.
StoreSecond(i) ==
    LET L == race.w[i]
    IN  /\ L.pc = "store2"
        /\ IF L.half = "len"
           THEN RaceStep([race EXCEPT !.cur.len = L.hdr.len, !.w[i].half = "none",
                                      !.w[i].pc = "load"])
           ELSE RaceStep([race EXCEPT !.cur.id = L.hdr.id, !.w[i].half = "none",
                                      !.w[i].pc = "load"])
        /\ UNCHANGED <<clone, highest>>

\* bbs.mask[bn] |= (1 << bitn), the load: the header, the bounds check against
\* its length, and the byte. A length beyond the array lets the access leave
\* the array.
Load(i) ==
    LET L == race.w[i]
        bn == offsets(L.bit)[1]
        h == race.cur
        a == race.heap[h.id]
    IN  /\ L.pc = "load"
        /\ IF bn >= h.len THEN RaceStep([race EXCEPT !.w[i].pc = "panic"])
           ELSE IF bn >= Len(a) THEN RaceStep([race EXCEPT !.w[i].pc = "fault"])
           ELSE RaceStep([race EXCEPT !.w[i].ref = h.id, !.w[i].byte = a[bn + 1],
                                      !.w[i].pc = "write"])
        /\ UNCHANGED <<clone, highest>>

\* bbs.mask[bn] |= (1 << bitn), the store, into the array the load read.
Write(i) ==
    LET L == race.w[i]
        bn == offsets(L.bit)[1]
        bitn == offsets(L.bit)[2]
    IN  /\ L.pc = "write"
        /\ RaceStep([race EXCEPT !.heap[L.ref][bn + 1] = OrBit(L.byte, bitn),
                                 !.w[i].pc = "done"])
        /\ clone' = IF clone.shares /\ L.ref = 1 /\ bn < Len(clone.bytes)
                    THEN [clone EXCEPT !.bytes[bn + 1] = OrBit(L.byte, bitn)]
                    ELSE clone
        /\ highest' = IF L.bit > highest THEN L.bit ELSE highest

NextRace ==
    \/ \E i \in Writers : ReadLen(i)
    \/ \E i \in Writers : Grow(i)
    \/ \E i \in Writers : StoreFirst(i)
    \/ \E i \in Writers : StoreSecond(i)
    \/ \E i \in Writers : Load(i)
    \/ \E i \in Writers : Write(i)
    \/ \E pos \in EdgePositions : CloneIsSetCall(pos)

SpecRace == InitRace /\ [][NextRace]_vars

\* ------------------------------------------------------------- properties
Range(f) == {f[i] : i \in DOMAIN f}

\* The lowercase hexadecimal digit of a nibble: '0'..'9' are 48..57, 'a'..'f' 97..102.
HexDigit(n) == IF n < 10 THEN 48 + n ELSE 87 + n

\* The sum of 2^(7 - p%8) over the positions p of S that lie in byte k.
RECURSIVE SumWeights(_)
SumWeights(ps) ==
    IF ps = {} THEN 0
    ELSE LET p == CHOOSE x \in ps : TRUE
         IN  Pow2(7 - (p % 8)) + SumWeights(ps \ {p})
ByteOf(S, k) == SumWeights({p \in S : p \div 8 = k})

\* The state right after Set(true, S...) on a buffer as New(n) leaves it: zero bytes only.
AfterNewSetTrue == call.op = "Set" /\ call.val /\ old = Zeros(Len(old))

\* C1: bits are MSB first: after New(n) and Set(true, S), String() has two
\* characters per byte, every position of S lies in the buffer, and byte k is
\* rendered as the two lowercase hex digits of the sum of 2^(7-(p%8)) over the
\* p in S with p/8 = k; {0,6} gives "82", {0,6,7} "83" and
\* {0,1,7,8,9,14,15} "c1c3" (when New allocated no byte beyond them).
MsbFirstHex ==
    AfterNewSetTrue =>
        LET S == Range(call.bits)
            hex == String(mask)
        IN  /\ Len(hex) = 2 * Len(mask)
            /\ \A p \in S : p \div 8 < Len(mask)
            /\ \A k \in 0..(Len(mask) - 1) :
                  /\ hex[2 * k + 1] = HexDigit(ByteOf(S, k) \div 16)
                  /\ hex[2 * k + 2] = HexDigit(ByteOf(S, k) % 16)
            /\ (S = {0, 6} /\ Len(old) <= 1) => hex = <<56, 50>>
            /\ (S = {0, 6, 7} /\ Len(old) <= 1) => hex = <<56, 51>>
            /\ (S = {0, 1, 7, 8, 9, 14, 15} /\ Len(old) <= 2) => hex = <<99, 49, 99, 51>>

\* New(8), then Set(true, 0,1,7,8,9,14,15): String() is "c1c3".
MsbFirstHexWitness ==
    /\ AfterNewSetTrue
    /\ old = <<0>>
    /\ call.bits = <<0, 1, 7, 8, 9, 14, 15>>
    /\ String(mask) = <<99, 49, 99, 51>>

\* C2: read after write: right after Set(v, positions) every listed position,
\* inside or beyond the capacity the buffer had, reads v through IsSet.
ReadAfterWrite ==
    call.op = "Set" => \A i \in 1..Len(call.bits) : IsSet(mask, call.bits[i]) = call.val

\* Set(true, 8) extended a one-byte buffer, and Set(false, 8) then cleared the bit.
ReadAfterWriteWitness ==
    /\ call.op = "Set" /\ ~call.val /\ call.bits = <<8>>
    /\ calls = 2
    /\ old = <<0, 128>>
    /\ ~IsSet(mask, 8)

\* C3: for a non-empty position list the method AreSet(Any, ...) is the OR of
\* IsSet over the listed positions and AreSet(All, ...) is the AND.
AreSetIsOrAnd ==
    (call.op = "AreSet" /\ Len(call.bits) >= 1) =>
        call.res = IF call.rule = Any
                   THEN \E i \in 1..Len(call.bits) : IsSet(mask, call.bits[i])
                   ELSE \A i \in 1..Len(call.bits) : IsSet(mask, call.bits[i])

\* AreSet(Any, p, q) with p unset and q set answered true.
AreSetIsOrAndWitness ==
    /\ call.op = "AreSet" /\ call.rule = Any /\ Len(call.bits) = 2
    /\ ~IsSet(mask, call.bits[1])
    /\ IsSet(mask, call.bits[2])
    /\ call.res

\* C6: IsSet(pos) is false for every pos >= Len(), the empty bit-set included.
\* (IsSet indexes mask only inside its domain: a read outside it has no value.)
IsSetOutOfRange ==
    (call.op = "IsSet" /\ call.bits[1] >= BitLen(mask)) => call.res = FALSE

\* IsSet(Len()) on a one-byte bit-set holding bits answered false.
IsSetOutOfRangeWitness ==
    /\ call.op = "IsSet"
    /\ Len(mask) = 1 /\ mask[1] = 255 - 126
    /\ call.bits = <<8>>
    /\ call.res = FALSE

\* ------------------------------------- properties of the free function
IsHexChar(c) == c \in (48..57) \cup (97..102) \cup (65..70)
\* The value of a hex digit, either case.
HexValue(c) == IF c \in 48..57 THEN c - 48 ELSE IF c \in 97..102 THEN c - 87 ELSE c - 55

\* Even length, only 0-9a-fA-F.
WellFormed(t) == Len(t) % 2 = 0 /\ \A i \in 1..Len(t) : IsHexChar(t[i])

\* The decoded bit-length of a text, 8 * (len/2).
HexBits(t) == 8 * (Len(t) \div 2)
InRange(t, p) == p < HexBits(t)
\* The two characters of the byte holding position p are not both hex digits.
MalformedAt(t, p) == ~IsHexChar(t[2 * (p \div 8) + 1]) \/ ~IsHexChar(t[2 * (p \div 8) + 2])
\* Position p of a text, MSB first: bits 0..3 lie in the first character of the byte.
TextBit(t, p) ==
    LET c == t[2 * (p \div 8) + (IF p % 8 < 4 THEN 1 ELSE 2)]
    IN  (HexValue(c) \div Pow2(3 - (p % 4))) % 2 = 1

\* C4: for a well-formed hex text the free function AreSet returns what the
\* method AreSet returns on the bit-set ParseHexString decodes from the text,
\* and a nil error.
FreeEqualsMethod ==
    (call.op = "AreSetHex" /\ WellFormed(text)) =>
        /\ ParseHexString(text).err = ErrNil
        /\ call.err = ErrNil
        /\ call.res = AreSet(ParseHexString(text).bbs, call.rule, call.bits)

\* AreSet("b3", All, 0, 6) answered true, as the method does on the decoded byte.
FreeEqualsMethodWitness ==
    /\ call.op = "AreSetHex" /\ text = <<98, 51>>
    /\ call.rule = All /\ call.bits = <<0, 6>>
    /\ ParseHexString(text).bbs = <<179>>
    /\ call.res /\ call.err = ErrNil

\* C5 as stated: for every text ParseHexString rejects and every non-empty
\* position list the free function returns a non-nil error and false.
FreeRejectsWhatParseRejects ==
    (call.op = "AreSetHex" /\ ParseHexString(text).err # ErrNil /\ call.bits # <<>>) =>
        (call.err # ErrNil /\ ~call.res)

\* Listed position i is examined: no earlier position ended the scan. An
\* earlier position lets the scan go on when it is out of range under Any, or
\* in range in a well-formed byte with the bit set under All, clear under Any.
Examined(t, rule, bits, i) ==
    \A j \in 1..(i - 1) :
        IF InRange(t, bits[j])
        THEN ~MalformedAt(t, bits[j]) /\ (TextBit(t, bits[j]) <=> rule = All)
        ELSE rule = Any

\* C5, amended: with a non-empty position list and a non-empty text, the free
\* function returns ErrInvalidSourceString when the text has an odd number of
\* bytes; for an even number of bytes it returns ErrParseFailed exactly when
\* it examines a listed in-range position whose byte is not two hex digits,
\* and a nil error otherwise; a non-nil error comes with the result false.
FreeErrorWhenExamined ==
    (call.op = "AreSetHex" /\ call.bits # <<>> /\ text # <<>>) =>
        /\ call.err = IF Len(text) % 2 = 1 THEN ErrInvalidSourceString
                      ELSE IF \E i \in 1..Len(call.bits) :
                                 /\ Examined(text, call.rule, call.bits, i)
                                 /\ InRange(text, call.bits[i])
                                 /\ MalformedAt(text, call.bits[i])
                           THEN ErrParseFailed
                      ELSE ErrNil
        /\ call.err # ErrNil => ~call.res

\* AreSet("xx3F", All, 8, 0): bit 8 is clear, the scan stops there, and byte 0,
\* which ParseHexString rejects, is never decoded: false and no error.
FreeErrorWhenExaminedWitness ==
    /\ call.op = "AreSetHex" /\ text = <<120, 120, 51, 70>>
    /\ call.rule = All /\ call.bits = <<8, 0>>
    /\ ParseHexString(text).err = ErrParseFailed
    /\ call.err = ErrNil /\ ~call.res

\* The listed positions that are in range, in their order.
RECURSIVE InRangeOnly(_, _)
InRangeOnly(t, bits) ==
    IF bits = <<>> THEN <<>>
    ELSE IF InRange(t, Head(bits)) THEN <<Head(bits)>> \o InRangeOnly(t, Tail(bits))
    ELSE InRangeOnly(t, Tail(bits))

\* C7: in the free function a position at or beyond the decoded bit-length is
\* an unset bit and no error: an error comes only from an odd length or from a
\* listed in-range position in a byte that is not two hex digits; under All
\* such a position makes the result false; under Any it contributes nothing:
\* the call returns what it returns without the out-of-range positions, and
\* for a well-formed text true iff some listed in-range position is set.
FreeOutOfRangeUnset ==
    (call.op = "AreSetHex" /\ Len(text) % 2 = 0) =>
        /\ call.err # ErrNil =>
              \E i \in 1..Len(call.bits) :
                  InRange(text, call.bits[i]) /\ MalformedAt(text, call.bits[i])
        /\ (call.rule = All /\ \E i \in 1..Len(call.bits) : ~InRange(text, call.bits[i]))
              => ~call.res
        /\ call.rule = Any =>
              /\ call.res = AreSetHex(text, Any, InRangeOnly(text, call.bits)).res
              /\ call.err = AreSetHex(text, Any, InRangeOnly(text, call.bits)).err
        /\ (call.rule = Any /\ WellFormed(text)) =>
              /\ call.err = ErrNil
              /\ call.res <=> \E i \in 1..Len(call.bits) :
                                 InRange(text, call.bits[i]) /\ TextBit(text, call.bits[i])

\* AreSet("b3", Any, FarPos, 0): the out-of-range position is passed over and
\* bit 0 answers true.
FreeOutOfRangeUnsetWitness ==
    /\ call.op = "AreSetHex" /\ text = <<98, 51>>
    /\ call.rule = Any /\ call.bits = <<FarPos, 0>>
    /\ call.res /\ call.err = ErrNil

\* C8: AreSet never answers a vacuous true: with an empty position list the
\* method returns false and the free function false with a nil error, and on
\* an empty bit-set or an empty text they return false (the free function with
\* a nil error) for every rule and every position list.
NoVacuousTruth ==
    /\ (call.op = "AreSet" /\ (call.bits = <<>> \/ mask = <<>>)) => ~call.res
    /\ (call.op = "AreSetHex" /\ (call.bits = <<>> \/ text = <<>>)) =>
          (~call.res /\ call.err = ErrNil)

\* AreSet("b3", All) with no position answered false with a nil error.
NoVacuousTruthWitness ==
    /\ call.op = "AreSetHex" /\ text = <<98, 51>>
    /\ call.rule = All /\ call.bits = <<>>
    /\ ~call.res /\ call.err = ErrNil

\* ----------------------------------------------- properties of Set(false)
\* C9: Set(false, p) with p >= Len() leaves the byte buffer unchanged.
ClearNeverGrows ==
    (call.op = "Set" /\ ~call.val /\ Len(call.bits) = 1 /\ call.bits[1] >= BitLen(old))
        => mask = old

\* C10: Set(v, p) on a bit that already reads v (Set(true, p) after
\* Set(true, p); Set(false, p) on a bit that reads clear, inside or beyond the
\* capacity) leaves the whole buffer unchanged.
SetIdempotent ==
    (call.op = "Set" /\ Len(call.bits) = 1 /\ IsSet(old, call.bits[1]) = call.val)
        => mask = old

\* ------------------------------------------------ properties of the length
\* C11 as stated: the buffer has exactly the bytes needed to address the
\* highest bit ever set: none if no bit was ever set, floor(h/8)+1 otherwise.
MinimalBuffer ==
    Len(mask) = IF highest < 0 THEN 0 ELSE (highest \div 8) + 1

\* C11, amended: the buffer has at least the bytes needed to address the
\* highest bit ever set (New and the parsers allocate bytes that hold no bit).
BufferCoversHighest ==
    highest >= 0 => Len(mask) >= (highest \div 8) + 1

\* Set(true, 8) on the empty bit-set: two bytes, the minimum for bit 8.
BufferCoversHighestWitness ==
    /\ call.op = "Set" /\ call.val /\ call.bits = <<8>>
    /\ old = <<>>
    /\ highest = 8
    /\ Len(mask) = 2

\* C12: Len() never decreases: no call leaves a shorter buffer than it found.
GrowthMonotonic == [][Len(mask') >= Len(mask)]_vars

\* Set(false, ...) cleared every bit of a two-byte buffer, which keeps its two bytes.
GrowthMonotonicWitness ==
    /\ call.op = "Set" /\ ~call.val
    /\ old = <<193, 195>>
    /\ mask = <<0, 0>>

\* --------------------------------------------- properties of the text forms
\* A text with every uppercase letter replaced by its lowercase letter.
Lower(t) == [i \in 1..Len(t) |-> IF t[i] \in 65..90 THEN t[i] + 32 ELSE t[i]]

\* C13: hex round trip: for an even-length text over 0-9a-fA-F, the empty text
\* included, ParseHexString succeeds and String() of the result is the text
\* with every letter in lower case.
HexRoundTrip ==
    (call.op = "ParseHexString" /\ WellFormed(text)) =>
        /\ call.err = ErrNil
        /\ String(mask) = Lower(text)

\* ParseHexString("bF") decodes one byte, which String() renders as "bf".
HexRoundTripWitness ==
    /\ call.op = "ParseHexString"
    /\ text = <<98, 70>>
    /\ mask = <<191>>
    /\ String(mask) = <<98, 102>>

\* C14: String() is the inverse of ParseHexString on every bit-set reached by
\* New and Set: ParseHexString of the rendered text succeeds and gives the same
\* byte buffer.
StringInverse ==
    call.op = "String" =>
        ParseHexString(call.str) = [bbs |-> mask, err |-> ErrNil]

\* String() of the two-byte buffer with bits 0, 1, 7, 8, 9, 14, 15 is "c1c3".
StringInverseWitness ==
    /\ call.op = "String"
    /\ mask = <<193, 195>>
    /\ call.str = <<99, 49, 99, 51>>

\* Only '0' and '1'.
BinaryText(t) == \A i \in 1..Len(t) : t[i] \in {48, 49}
\* A text followed by '0' characters up to the next multiple of 8.
PadToByte(t) ==
    [j \in 1..(8 * ((Len(t) + 7) \div 8)) |-> IF j <= Len(t) THEN t[j] ELSE 48]

\* C15: binary round trip: for a text of '0' and '1' of any length,
\* ParseBinaryString succeeds, the result has 8 * ceil(len/8) bits, and
\* BinaryString() of it is the text followed by '0' up to a multiple of 8.
BinaryRoundTrip ==
    (call.op = "ParseBinaryString" /\ BinaryText(text)) =>
        /\ call.err = ErrNil
        /\ BitLen(mask) = 8 * ((Len(text) + 7) \div 8)
        /\ BinaryString(mask) = PadToByte(text)

\* ParseBinaryString("101000001"): nine characters, two bytes.
BinaryRoundTripWitness ==
    /\ call.op = "ParseBinaryString"
    /\ text = <<49, 48, 49, 48, 48, 48, 48, 48, 49>>
    /\ mask = <<160, 128>>

\* C16: BinaryString agrees with IsSet: it has Len() characters, character i
\* is '1' iff IsSet(i) and '0' otherwise, and the empty bit-set renders as the
\* empty text.
BinaryAgreesWithIsSet ==
    call.op = "BinaryString" =>
        /\ Len(call.str) = BitLen(mask)
        /\ \A i \in 0..(BitLen(mask) - 1) :
              call.str[i + 1] = IF IsSet(mask, i) THEN 49 ELSE 48
        /\ mask = <<>> => call.str = <<>>

\* BinaryString() after Set(true, 0, 6) on New(8) is "10000010".
BinaryAgreesWithIsSetWitness ==
    /\ call.op = "BinaryString"
    /\ mask = <<130>>
    /\ call.str = <<49, 48, 48, 48, 48, 48, 49, 48>>

\* The text holds a character encoded in two bytes.
HasMultiByte(t) ==
    \E i \in 1..(Len(t) - 1) : t[i] \in 194..223 /\ t[i + 1] \in 128..191

\* C17: ParseHexString: the empty text gives the empty bit-set and no error; an
\* odd length or a multi-byte character gives ErrInvalidSourceString whatever
\* the characters are; otherwise a character outside 0-9a-fA-F gives
\* ErrParseFailed; every other text succeeds.
HexErrorClass ==
    call.op = "ParseHexString" =>
        IF text = <<>> THEN call.err = ErrNil /\ mask = <<>>
        ELSE IF Len(text) % 2 = 1 \/ HasMultiByte(text)
             THEN call.err = ErrInvalidSourceString
        ELSE IF \E i \in 1..Len(text) : ~IsHexChar(text[i])
             THEN call.err = ErrParseFailed
        ELSE call.err = ErrNil

\* "x", U+00E9, "3": four bytes, three characters, one of them not a hex digit.
HexErrorClassWitness ==
    /\ call.op = "ParseHexString"
    /\ text = <<120, 195, 169, 51>>
    /\ call.err = ErrInvalidSourceString

\* C18: Validate returns the error value ParseHexBytes returns on the same
\* bytes: nil, ErrInvalidSourceString for an odd length, ErrParseFailed.
ValidateSameError ==
    call.op = "Validate" => call.err = ParseHexBytes(text).err

\* C19: no partial result: when ParseHexString, ParseHexBytes or
\* ParseBinaryString returns an error, the bit-set returned with it has no
\* bytes, however many leading characters were valid.
NoPartialResult ==
    (call.op \in {"ParseHexString", "ParseHexBytes", "ParseBinaryString"}
        /\ call.err # ErrNil) => mask = <<>>

\* ParseHexBytes("00x0"): the first pair is valid, the second is not.
NoPartialResultWitness ==
    /\ call.op = "ParseHexBytes"
    /\ text = <<48, 48, 120, 48>>
    /\ call.err = ErrParseFailed
    /\ mask = <<>>

\* C20: ParseBinaryString fails, with ErrParseFailed, iff the text holds a
\* character other than '0' and '1', a multi-byte character included; the
\* empty text gives the empty bit-set and no error.
BinaryErrorClass ==
    call.op = "ParseBinaryString" =>
        /\ call.err = IF BinaryText(text) THEN ErrNil ELSE ErrParseFailed
        /\ text = <<>> => mask = <<>>

\* ParseBinaryString of "1" followed by U+00E9.
BinaryErrorClassWitness ==
    /\ call.op = "ParseBinaryString"
    /\ text = <<49, 195, 169>>
    /\ call.err = ErrParseFailed

\* ------------------------------------------- properties of New and of Set
\* C23: New(n) allocates ceil(n/8) bytes, all zero: Len() is 8 * ceil(n/8), no
\* position reads as set, and New(0) is the empty bit-set, whose String() and
\* BinaryString() are empty.
NewAllocatesZeros ==
    call.op = "New" =>
        LET n == call.bits[1]
        IN  /\ Len(mask) = (n + 7) \div 8
            /\ BitLen(mask) = 8 * ((n + 7) \div 8)
            /\ \A i \in 0..FarPos : ~IsSet(mask, i)
            /\ \A k \in 1..Len(mask) : mask[k] = 0
            /\ n = 0 => mask = <<>> /\ String(mask) = <<>> /\ BinaryString(mask) = <<>>

\* New(9): two zero bytes.
NewAllocatesZerosWitness ==
    /\ call.op = "New"
    /\ call.bits = <<9>>
    /\ mask = <<0, 0>>

\* C24: frame of Set: Set(v, bits...) leaves IsSet(q) as it was for every
\* position q not among bits; the bytes allocated before the call that hold
\* none of the positions keep their value, and in the bytes the call adds
\* every bit other than the listed ones reads false.
SetFrame ==
    call.op = "Set" =>
        /\ \A q \in 0..FarPos :
              q \notin Range(call.bits) => (IsSet(mask, q) <=> IsSet(old, q))
        /\ \A k \in 1..Len(old) :
              (\A p \in Range(call.bits) : p \div 8 # k - 1) => mask[k] = old[k]
        /\ \A q \in BitLen(old)..(BitLen(mask) - 1) :
              q \notin Range(call.bits) => ~IsSet(mask, q)

\* Set(true, 8) on the one-byte buffer holding bits 0 and 6: a second byte is
\* added with bit 8 alone, and the first byte is kept.
SetFrameWitness ==
    /\ call.op = "Set" /\ call.val /\ call.bits = <<8>>
    /\ old = <<130>>
    /\ mask = <<130, 128>>

\* C26: exact growth: Set(true, p) with p >= Len() leaves floor(p/8) + 1 bytes,
\* from the empty bit-set too, and with p < Len() the length is unchanged.
ExactGrowth ==
    (call.op = "Set" /\ call.val /\ Len(call.bits) = 1) =>
        LET p == call.bits[1]
        IN  IF p >= BitLen(old)
            THEN Len(mask) = (p \div 8) + 1 /\ BitLen(mask) = 8 * ((p \div 8) + 1)
            ELSE Len(mask) = Len(old)

\* Set(true, 8) on the empty bit-set: two bytes.
ExactGrowthWitness ==
    /\ call.op = "Set" /\ call.val /\ call.bits = <<8>>
    /\ old = <<>>
    /\ mask = <<0, 128>>

CloneIndependent ==
    [][/\ call'.op = "Clone" =>
             clone'.bytes = mask /\ ~clone'.shares /\ mask' = mask
       /\ (clone.held /\ call'.op = "CloneSet") =>
             /\ mask' = mask
             /\ BitLen(mask') = BitLen(mask)
             /\ String(mask') = String(mask)
             /\ \A q \in 0..FarPos : IsSet(mask', q) <=> IsSet(mask, q)
       /\ (clone.held /\ call'.op = "Set") =>
             /\ clone'.bytes = clone.bytes
             /\ \A q \in 0..FarPos : IsSet(clone'.bytes, q) <=> IsSet(clone.bytes, q)]_vars

\* New(8), Set(true, 0, 6), Clone, Set(true, 8) on the clone: the clone has
\* two bytes, the source still one.
CloneIndependentWitness ==
    /\ call.op = "CloneSet" /\ call.val /\ call.bits = <<8>>
    /\ clone.bytes = <<130, 128>>
    /\ mask = <<130>>
    /\ old = <<130>>

\* C22: a write to the byte sequence Bytes() returned changes nothing of what
\* IsSet, AreSet, String and BinaryString of the bit-set return.
BytesWriteHarmless ==
    call.op = "WriteBytes" =>
        /\ mask = old
        /\ \A q \in 0..FarPos : IsSet(mask, q) <=> IsSet(old, q)
        /\ String(mask) = String(old)
        /\ BinaryString(mask) = BinaryString(old)

\* ----------------------------------------------- properties of the race
\* Both Set calls have returned.
BothDone == race.w # <<>> /\ \A i \in Writers : race.w[i].pc = "done"
\* The buffer either order of the two calls leaves when one runs after the other.
Sequential(first, second) ==
    SetBits(SetBits(race.init, TRUE, <<race.w[first].bit>>), TRUE, <<race.w[second].bit>>)

\* C27: Set is not atomic. Two Set(true, p) calls running at once on one
\* instance can only lose: when both have returned, a position reads set only
\* if it was set before or is one of the two written, and the buffer may
\* differ from what either sequential order leaves (the witness); a reader of
\* a clone taken before the calls reads what the clone held then, whatever
\* the writers do to the source. (A call that left the arrays, pc "fault", has
\* no defined effect: nothing is stated once that happened.)
RaceLosesCloneUnaffected ==
    (race.w # <<>> /\ \A i \in Writers : race.w[i].pc # "fault") =>
        /\ clone.bytes = race.init
        /\ call.op = "CloneIsSet" => (call.res <=> IsSet(race.init, call.bits[1]))
        /\ BothDone =>
              \A q \in 0..FarPos :
                  IsSet(mask, q) =>
                      (IsSet(race.init, q) \/ \E i \in Writers : race.w[i].bit = q)

\* A lost bit update: Set(true, 0) and Set(true, 1) on New(8) both load the
\* byte 0x00; the store of 0x40 comes first and the store of 0x80 replaces it.
\* In either sequential order the byte ends as 0xc0.
RaceLosesCloneUnaffectedWitness ==
    /\ BothDone
    /\ race.init = <<0>>
    /\ race.w[1].bit = 0 /\ race.w[2].bit = 1
    /\ mask = <<128>>
    /\ mask # Sequential(1, 2) /\ mask # Sequential(2, 1)
    /\ clone.bytes = <<0>>

====
